---- MODULE Spec2Model ----
(***************************************************************************)
(* The particle-field engine of src/frontend/script.js (lines 320-405):    *)
(* the IIFE that looks the canvas up, registers the resize listener,       *)
(* creates the particles and runs the requestAnimationFrame loop.          *)
(*                                                                         *)
(* Coordinates are JavaScript doubles in the source.  Here they are        *)
(* fixed-point integers counted in units of 1/SCALE pixel, so that the     *)
(* velocities (-0.3 .. 0.3 px per frame) and the offsets the properties    *)
(* speak about (0.05 px, 0.25 px) are whole numbers of units.              *)
(***************************************************************************)
EXTENDS Integers, Sequences, FiniteSets

VARIABLES
    canvasPresent,    \* document.getElementById('particlesCanvas') is not null
    phase,            \* "loading" before the IIFE ran, then "running" or "inert"
    innerSize,        \* window.innerWidth / window.innerHeight, in pixels
    canvas,           \* canvas.width / canvas.height, in pixels
    resizeListeners,  \* number of 'resize' listeners the IIFE registered
    particles,        \* the particles array
    rafPending,       \* callbacks requested with requestAnimationFrame, not yet run
    trace,            \* the calls of the last animate(), in the order made
    ticks,            \* animate() calls so far
    resizes,          \* window resize events so far
    lastEvent,        \* the handler that produced this state
    display,          \* style.display of the four panels of the summarize form
    fileSelected,     \* chatFile.files[0] is a file
    requests,         \* the summarize click handlers suspended at an await
    clicks            \* summarize clicks handled so far

engineVars == <<canvasPresent, phase, innerSize, canvas, resizeListeners, particles,
                rafPending, trace, ticks, resizes>>

formVars == <<display, fileSelected, requests, clicks>>

vars == <<canvasPresent, phase, innerSize, canvas, resizeListeners, particles,
          rafPending, trace, ticks, resizes, lastEvent,
          display, fileSelected, requests, clicks>>

----------------------------------------------------------------------------
(* Bounds of the model *)

\* particles created (the page uses 80; see createParticles)
NUM_PARTICLES == 2
\* animate() calls explored after the one the IIFE makes
MaxTicks == 3
\* window resize events explored
MaxResizes == 1
\* summarize clicks explored
MaxClicks == 3

(* Constants of the program and of the number representation *)

\* units per pixel: one unit is 0.05 px
SCALE == 20
\* Math.random() returns k / RandDen for a k in 0 .. RandDen-1
RandDen == 12
\* const MAX_DISTANCE = 140 (pixels)
MAX_DISTANCE == 140

MaxDistUnits == MAX_DISTANCE * SCALE

\* the viewport sizes (pixels) the window takes in the model
Viewports == { [width |-> 5, height |-> 168], [width |-> 6, height |-> 141] }

\* the values k of Math.random() = k / RandDen drawn for each attribute
XSamples       == {0, 11}
YSamples       == {0, 10}
VXSamples      == {0, 11}
VYSamples      == {5, 7}
RadiusSamples  == {6}
OpacitySamples == {3}
ColorSamples   == {9}

Draws == [x : XSamples, y : YSamples, vx : VXSamples, vy : VYSamples,
          radius : RadiusSamples, opacity : OpacitySamples, color : ColorSamples]

NoCanvas == [width |-> 0, height |-> 0]

----------------------------------------------------------------------------
(* Math.sqrt on fixed-point numbers: the largest r with r*r <= s *)

RECURSIVE SqrtUpper(_, _)
SqrtUpper(s, h) == IF h * h > s THEN h ELSE SqrtUpper(s, 2 * h)

RECURSIVE SqrtSearch(_, _, _)
SqrtSearch(s, lo, hi) ==
    IF lo >= hi THEN lo
    ELSE LET mid == (lo + hi + 1) \div 2
         IN  IF mid * mid <= s THEN SqrtSearch(s, mid, hi)
                               ELSE SqrtSearch(s, lo, mid - 1)

Sqrt(s) == SqrtSearch(s, 0, SqrtUpper(s, 1))

----------------------------------------------------------------------------
(* The canvas guard of the IIFE: if (!canvas) return; *)

CanvasGuardNone(present) == TRUE

CanvasGuard(present) == present

(* resizeCanvas: canvas.width = innerWidth; canvas.height = innerHeight.   *)
(* It is given the particles array it could reach and returns what it     *)
(* leaves in canvas and in particles.                                      *)

ClampInto(c, dim) == IF c > dim THEN dim ELSE c

resizeCanvasReposition(inner, ps) ==
    [canvas    |-> [width |-> inner.width, height |-> inner.height],
     particles |-> [i \in 1..Len(ps) |->
                      [ps[i] EXCEPT !.x = ClampInto(ps[i].x, inner.width * SCALE),
                                    !.y = ClampInto(ps[i].y, inner.height * SCALE)]]]

resizeCanvas(inner, ps) ==
    [canvas    |-> [width |-> inner.width, height |-> inner.height],
     particles |-> ps]

(* createParticles *)

createParticle(d, cv) ==
    [x       |-> (d.x * cv.width * SCALE) \div RandDen,
     y       |-> (d.y * cv.height * SCALE) \div RandDen,
     vx      |-> ((2 * d.vx - RandDen) * 6 * SCALE) \div (20 * RandDen),
     vy      |-> ((2 * d.vy - RandDen) * 6 * SCALE) \div (20 * RandDen),
     radius  |-> (15 * SCALE) \div 10 + (d.radius * 2 * SCALE) \div RandDen,
     opacity |-> [num |-> 2 * RandDen + 6 * d.opacity, den |-> 10 * RandDen],
     color   |-> IF 2 * d.color > RandDen THEN "#00d4ff" ELSE "#7b2cbf"]

createParticlesExtra(draws, cv) ==
    [i \in 1..(NUM_PARTICLES + 1) |->
        createParticle(draws[IF i > NUM_PARTICLES THEN NUM_PARTICLES ELSE i], cv)]

createParticles(draws, cv) ==
    [i \in 1..NUM_PARTICLES |-> createParticle(draws[i], cv)]

----------------------------------------------------------------------------
(* updateParticles *)

\* the two wraparound tests of one axis, after the velocity was added
WrapAxisCarry(c, dim) ==
    IF c < 0 THEN c + dim ELSE IF c > dim THEN c - dim ELSE c

WrapAxisNoUpper(c, dim) ==
    IF c < 0 THEN dim ELSE c

WrapAxis(c, dim) ==
    LET c1 == IF c < 0 THEN dim ELSE c
    IN  IF c1 > dim THEN 0 ELSE c1

MoveBounce(p, cv) ==
    LET nx == p.x + p.vx
        ny == p.y + p.vy
    IN  [p EXCEPT !.x = WrapAxis(nx, cv.width * SCALE),
                  !.y = WrapAxis(ny, cv.height * SCALE),
                  !.vx = IF nx < 0 \/ nx > cv.width * SCALE THEN 0 - p.vx ELSE p.vx,
                  !.vy = IF ny < 0 \/ ny > cv.height * SCALE THEN 0 - p.vy ELSE p.vy]

Move(p, cv) ==
    [p EXCEPT !.x = WrapAxis(p.x + p.vx, cv.width * SCALE),
              !.y = WrapAxis(p.y + p.vy, cv.height * SCALE)]

updateParticles(ps, cv) == [i \in 1..Len(ps) |-> Move(ps[i], cv)]

----------------------------------------------------------------------------
(* drawParticles: the canvas calls it makes, in order *)

Call(name) ==
    [op |-> name, a |-> 0, b |-> 0, dist |-> 0, alpha |-> [num |-> 0, den |-> 1]]

\* ctx.arc + ctx.fill of particle i, filled with rgba(rgb, p.opacity)
Arc(ps, i) ==
    [op |-> "arc", a |-> i, b |-> i, dist |-> 0, alpha |-> ps[i].opacity]

\* dist = Math.sqrt(dx*dx + dy*dy)
Distance(a, b) ==
    LET dx == a.x - b.x
        dy == a.y - b.y
    IN  Sqrt(dx * dx + dy * dy)

\* the stroke alpha: (1 - dist / MAX_DISTANCE) * 0.25, as a fraction
LinkAlphaFull(dist) == [num |-> 4 * (MaxDistUnits - dist), den |-> 4 * MaxDistUnits]

LinkAlpha(dist) == [num |-> MaxDistUnits - dist, den |-> 4 * MaxDistUnits]

\* if (dist < MAX_DISTANCE)
IsLinkedInclusive(dist) == dist <= MaxDistUnits

IsLinked(dist) == dist < MaxDistUnits

Line(ps, i, j) ==
    LET d == Distance(ps[i], ps[j])
    IN  [op |-> "line", a |-> i, b |-> j, dist |-> d, alpha |-> LinkAlpha(d)]

\* the inner loop: j from i+1 to the last particle
RECURSIVE LinksFrom(_, _, _)
LinksFrom(ps, i, j) ==
    IF j > Len(ps) THEN <<>>
    ELSE (IF IsLinked(Distance(ps[i], ps[j])) THEN <<Line(ps, i, j)>> ELSE <<>>)
         \o LinksFrom(ps, i, j + 1)

\* the outer loop: i from the first to the last particle
RECURSIVE Links(_, _)
Links(ps, i) ==
    IF i > Len(ps) THEN <<>>
    ELSE LinksFrom(ps, i, i + 1) \o Links(ps, i + 1)

Arcs(ps) == [i \in 1..Len(ps) |-> Arc(ps, i)]

drawParticlesLinksFirst(ps) == <<Call("clearRect")>> \o Links(ps, 1) \o Arcs(ps)

drawParticles(ps) == <<Call("clearRect")>> \o Arcs(ps) \o Links(ps, 1)

----------------------------------------------------------------------------
(* animate: updateParticles(); drawParticles(); requestAnimationFrame(animate) *)

Requests(tr) == Cardinality({k \in 1..Len(tr) : tr[k].op = "requestAnimationFrame"})

animateTwice(ps, cv) ==
    LET moved == updateParticles(ps, cv)
    IN  [particles |-> moved,
         trace |-> <<Call("updateParticles")>> \o drawParticles(moved)
                   \o <<Call("requestAnimationFrame"), Call("requestAnimationFrame")>>]

animate(ps, cv) ==
    LET moved == updateParticles(ps, cv)
    IN  [particles |-> moved,
         trace |-> <<Call("updateParticles")>> \o drawParticles(moved)
                   \o <<Call("requestAnimationFrame")>>]

----------------------------------------------------------------------------
(* The summarize form (lines 70-131): the four panels and the click handler *)

Panels == {"loadingSpinner", "resultCard", "errorCard", "placeholderCard"}

\* style.display before the script assigns it: whatever the page's markup set
DisplayValues == {"", "none", "block"}

\* showError: lines 126-129
showErrorKeepsResult(d) ==
    [d EXCEPT !["loadingSpinner"] = "none", !["placeholderCard"] = "none",
              !["errorCard"] = "block"]

showError(d) ==
    [d EXCEPT !["loadingSpinner"] = "none", !["resultCard"] = "none",
              !["placeholderCard"] = "none", !["errorCard"] = "block"]

\* the parsed bodies response.json() can give, and "notJson" when it rejects
Bodies == {"summary", "noSummary", "error", "null", "notJson"}

\* data.summary.split(...) of line 116 throws a TypeError
SplitThrows(body) == body # "summary"

\* displayResult: lines 111-114 set the panels, then line 116 may throw
displayResult(d, body) ==
    [display |-> [d EXCEPT !["loadingSpinner"] = "none", !["errorCard"] = "none",
                           !["placeholderCard"] = "none", !["resultCard"] = "block"],
     threw   |-> SplitThrows(body)]

\* lines 85-88: the panels while the request is sent
showLoading(d) ==
    [d EXCEPT !["loadingSpinner"] = "block", !["resultCard"] = "none",
              !["errorCard"] = "none", !["placeholderCard"] = "none"]

\* lines 98-106 once response.json() has settled: what the rest of the try
\* block and its catch leave in the panels
afterJson(d, ok, body) ==
    IF body = "notJson" THEN showError(d)       \* json() rejected: catch
    ELSE IF ~ok
         THEN showError(d)                      \* line 99, or its TypeError caught
         ELSE LET r == displayResult(d, body)
              IN  IF r.threw THEN showError(r.display) ELSE r.display

\* the sequence without its i-th element
RemoveAt(seq, i) == [k \in 1..(Len(seq) - 1) |-> IF k < i THEN seq[k] ELSE seq[k + 1]]

(* The page *)

Init ==
    /\ canvasPresent \in BOOLEAN
    /\ phase = "loading"
    /\ innerSize \in Viewports
    /\ canvas = NoCanvas
    /\ resizeListeners = 0
    /\ particles = <<>>
    /\ rafPending = 0
    /\ trace = <<>>
    /\ ticks = 0
    /\ resizes = 0
    /\ lastEvent = "load"
    /\ display = [e \in Panels |-> ""]
    /\ fileSelected = FALSE
    /\ requests = <<>>
    /\ clicks = 0

\* the IIFE of lines 321-405, run once when the script is evaluated
ParticlesIIFE ==
    /\ phase = "loading"
    /\ IF ~CanvasGuard(canvasPresent)
       THEN /\ phase' = "inert"
            /\ UNCHANGED <<canvas, resizeListeners, particles, rafPending, trace>>
       ELSE \E draws \in [1..NUM_PARTICLES -> Draws] :
              LET cv    == resizeCanvas(innerSize, particles).canvas
                  first == animate(createParticles(draws, cv), cv)
              IN  /\ phase' = "running"
                  /\ resizeListeners' = resizeListeners + 1
                  /\ canvas' = cv
                  /\ particles' = first.particles
                  /\ trace' = first.trace
                  /\ rafPending' = rafPending + Requests(first.trace)
    /\ lastEvent' = "startup"
    /\ UNCHANGED <<canvasPresent, innerSize, ticks, resizes>>
    /\ UNCHANGED formVars

\* the browser runs one requested animation-frame callback
Animate ==
    /\ rafPending > 0
    /\ ticks < MaxTicks
    /\ LET t == animate(particles, canvas)
       IN  /\ particles' = t.particles
           /\ trace' = t.trace
           /\ rafPending' = (rafPending - 1) + Requests(t.trace)
    /\ ticks' = ticks + 1
    /\ lastEvent' = "animate"
    /\ UNCHANGED <<canvasPresent, phase, innerSize, canvas, resizeListeners, resizes>>
    /\ UNCHANGED formVars

\* the window is resized; the 'resize' event reaches the registered listeners
Resize ==
    /\ phase # "loading"
    /\ resizes < MaxResizes
    /\ \E v \in Viewports :
         /\ innerSize' = v
         /\ IF resizeListeners > 0
            THEN /\ canvas' = resizeCanvas(v, particles).canvas
                 /\ particles' = resizeCanvas(v, particles).particles
            ELSE UNCHANGED <<canvas, particles>>
    /\ resizes' = resizes + 1
    /\ lastEvent' = "resize"
    /\ UNCHANGED <<canvasPresent, phase, resizeListeners, rafPending, trace, ticks>>
    /\ UNCHANGED formVars

Next == ParticlesIIFE \/ Animate \/ Resize

Spec == Init /\ [][Next]_vars

----------------------------------------------------------------------------
(* updateParticles as a function of its input: a running field whose       *)
(* particles start anywhere inside the canvas with any velocity of         *)
(* -0.3 .. 0.3 px per frame, advanced by animation ticks.                  *)

\* 0.3 px, 0.05 px and 0.25 px in units
VMax     == (3 * SCALE) \div 10
Px005    == SCALE \div 20
Px025    == SCALE \div 4

W == canvas.width * SCALE
H == canvas.height * SCALE

AdvanceInputs(cv) ==
    [x : {0, cv.width * SCALE - Px005}, y : {0, cv.height * SCALE - Px005},
     vx : {0 - VMax, 0 - Px005, VMax}, vy : {0 - VMax, VMax},
     radius : {2 * SCALE}, opacity : {[num |-> 1, den |-> 2]}, color : {"#00d4ff"}]

InitAdvance ==
    /\ canvasPresent = TRUE
    /\ phase = "running"
    /\ innerSize \in Viewports
    /\ canvas = innerSize
    /\ resizeListeners = 1
    /\ particles \in [1..NUM_PARTICLES -> AdvanceInputs(innerSize)]
    /\ rafPending = 1
    /\ trace = <<>>
    /\ ticks = 0
    /\ resizes = 0
    /\ lastEvent = "input"
    /\ display = [e \in Panels |-> ""]
    /\ fileSelected = FALSE
    /\ requests = <<>>
    /\ clicks = 0

NextAdvance == Animate

SpecAdvance == InitAdvance /\ [][NextAdvance]_vars

----------------------------------------------------------------------------
(* The summarize form on its own: clicks, file choices and the outcomes of   *)
(* the requests, from any initial display of the panels.                   *)

InitSummarize ==
    /\ canvasPresent = FALSE
    /\ phase = "inert"
    /\ innerSize \in Viewports
    /\ canvas = NoCanvas
    /\ resizeListeners = 0
    /\ particles = <<>>
    /\ rafPending = 0
    /\ trace = <<>>
    /\ ticks = 0
    /\ resizes = 0
    /\ lastEvent = "load"
    /\ display \in [Panels -> DisplayValues]
    /\ fileSelected = FALSE
    /\ requests = <<>>
    /\ clicks = 0

\* the 'change' event of the file input: a file is chosen or the choice cleared
ChooseFile ==
    /\ \E f \in BOOLEAN : fileSelected' = f
    /\ fileSelected' # fileSelected
    /\ lastEvent' = "change"
    /\ UNCHANGED <<display, requests, clicks>>
    /\ UNCHANGED engineVars

\* the click handler up to its first await (lines 71-91)
ClickSummarize ==
    /\ clicks < MaxClicks
    /\ IF ~fileSelected
       THEN /\ display' = showError(display)
            /\ requests' = requests
       ELSE /\ display' = showLoading(display)
            /\ requests' = Append(requests, [stage |-> "fetch", ok |-> FALSE])
    /\ clicks' = clicks + 1
    /\ lastEvent' = "click"
    /\ UNCHANGED fileSelected
    /\ UNCHANGED engineVars

\* fetch resolves with a response; the handler goes on to await response.json()
FetchResolves ==
    /\ \E i \in 1..Len(requests) : \E ok \in BOOLEAN :
         /\ requests[i].stage = "fetch"
         /\ requests' = [requests EXCEPT ![i] = [stage |-> "json", ok |-> ok]]
    /\ lastEvent' = "response"
    /\ UNCHANGED <<display, fileSelected, clicks>>
    /\ UNCHANGED engineVars

\* fetch rejects (network failure): the catch of line 104 runs showError
FetchRejects ==
    /\ \E i \in 1..Len(requests) :
         /\ requests[i].stage = "fetch"
         /\ requests' = RemoveAt(requests, i)
    /\ display' = showError(display)
    /\ lastEvent' = "networkError"
    /\ UNCHANGED <<fileSelected, clicks>>
    /\ UNCHANGED engineVars

\* response.json() settles and the handler runs to its end
JsonSettles ==
    /\ \E i \in 1..Len(requests) : \E body \in Bodies :
         /\ requests[i].stage = "json"
         /\ requests' = RemoveAt(requests, i)
         /\ display' = afterJson(display, requests[i].ok, body)
    /\ lastEvent' = "body"
    /\ UNCHANGED <<fileSelected, clicks>>
    /\ UNCHANGED engineVars

NextSummarize ==
    ChooseFile \/ ClickSummarize \/ FetchResolves \/ FetchRejects \/ JsonSettles

SpecSummarize == InitSummarize /\ [][NextSummarize]_vars

----------------------------------------------------------------------------
(* Properties *)

Running == phase = "running"

Ids == DOMAIN particles

LineOps == {k \in 1..Len(trace) : trace[k].op = "line"}

ArcOps == {k \in 1..Len(trace) : trace[k].op = "arc"}

\* the squared distance of particles i and j, in squared units
DistSq(i, j) ==
    (particles[i].x - particles[j].x) * (particles[i].x - particles[j].x)
    + (particles[i].y - particles[j].y) * (particles[i].y - particles[j].y)

\* fraction f is greater than fraction g (positive denominators)
FracGreater(f, g) == f.num * g.den > g.num * f.den

\* C1 as stated: after updateParticles every particle has 0 <= x < width and
\* 0 <= y < height (the upper side excluded).
C1_HalfOpenBounds ==
    lastEvent = "animate" =>
        \A i \in Ids : /\ 0 <= particles[i].x /\ particles[i].x < W
                       /\ 0 <= particles[i].y /\ particles[i].y < H

\* C1 amended: after updateParticles every particle has 0 <= x <= width and
\* 0 <= y <= height, the upper side included.
C1_ClosedBounds ==
    lastEvent = "animate" =>
        \A i \in Ids : /\ 0 <= particles[i].x /\ particles[i].x <= W
                       /\ 0 <= particles[i].y /\ particles[i].y <= H

\* a particle that left through the lower side sits exactly on width
C1_Witness ==
    /\ lastEvent = "animate"
    /\ \E i \in Ids : particles[i].x = W /\ particles[i].vx < 0

\* C2 as stated: a particle at x = width - 0.05 with vx = 0.3 is at x = 0.25
\* after one updateParticles.
C2_CarriesOvershoot ==
    [][\A i \in Ids :
         (ticks' = ticks + 1 /\ particles[i].x = W - Px005 /\ particles[i].vx = VMax)
             => particles'[i].x = Px025]_vars

\* C2 amended: a particle at x = width - 0.05 with vx = 0.3 is at x = 0 after
\* one updateParticles: it is neither clamped to width nor given the overshoot.
C2_WrapsToZero ==
    [][\A i \in Ids :
         (ticks' = ticks + 1 /\ particles[i].x = W - Px005 /\ particles[i].vx = VMax)
             => particles'[i].x = 0]_vars

\* after the first tick, a particle of velocity 0.3 that started at
\* width - 0.05 (the only start from which it can be at 0)
C2_Witness ==
    /\ lastEvent = "animate" /\ ticks = 1
    /\ \E i \in Ids : particles[i].vx = VMax /\ particles[i].x = 0

\* C3: once createParticles has run there are exactly NUM_PARTICLES particles,
\* whatever ticks and resize events follow.
C3_Count == Running => Len(particles) = NUM_PARTICLES

C3_Witness ==
    /\ Running /\ ticks = MaxTicks /\ resizes >= 1
    /\ Len(particles) = NUM_PARTICLES

\* C4: the last drawParticles drew a link for the pair i < j exactly when the
\* two particles are less than 140 px apart; every link joins a lower to a
\* higher index, and no pair has two links.
C4_Links ==
    Running =>
        /\ \A i \in Ids : \A j \in Ids :
             i < j => ((DistSq(i, j) < MaxDistUnits * MaxDistUnits)
                        <=> (\E k \in LineOps : trace[k].a = i /\ trace[k].b = j))
        /\ \A k \in LineOps : /\ trace[k].a \in Ids /\ trace[k].b \in Ids
                              /\ trace[k].a < trace[k].b
        /\ \A k \in LineOps : \A m \in LineOps :
             (trace[k].a = trace[m].a /\ trace[k].b = trace[m].b) => k = m

\* a link between two particles at different places
C4_Witness ==
    /\ Running
    /\ \E k \in LineOps : trace[k].dist > 0

\* C5: the stroke alpha of every drawn link is in (0, 0.25], is 0.25 exactly
\* when the two particles coincide, and is smaller for a larger distance.
C5_Alpha ==
    \A k \in LineOps :
        LET al == trace[k].alpha
            d  == trace[k].dist
        IN  /\ al.den > 0
            /\ al.num > 0
            /\ 4 * al.num <= al.den
            /\ (4 * al.num = al.den) <=> (DistSq(trace[k].a, trace[k].b) = 0)
            /\ d > 0 => FracGreater(LinkAlpha(d - 1), al)
            /\ \A m \in LineOps :
                 d < trace[m].dist => FracGreater(al, trace[m].alpha)

\* a link of nonzero length, whose alpha is below 0.25
C5_Witness ==
    /\ Running
    /\ \E k \in LineOps : trace[k].dist > 0 /\ 4 * trace[k].alpha.num < trace[k].alpha.den

\* C6: every tick is updateParticles, then drawParticles, then one request of
\* a further tick, and while the engine runs exactly one request is pending.
C6_Loop ==
    Running =>
        /\ rafPending = 1
        /\ Len(trace) >= 3
        /\ trace[1].op = "updateParticles"
        /\ trace[2].op = "clearRect"
        /\ trace[Len(trace)].op = "requestAnimationFrame"
        /\ \A k \in 3..(Len(trace) - 1) : trace[k].op \in {"arc", "line"}

C6_Witness == Running /\ ticks = MaxTicks /\ rafPending = 1

\* C7: a resize event changes the window size and the canvas width and height
\* and nothing else: the particles, their number, the pending request and the
\* last frame's calls stay as they were.
C7_ResizeFrame ==
    [][resizes' # resizes =>
         /\ particles' = particles
         /\ rafPending' = rafPending
         /\ trace' = trace
         /\ phase' = phase
         /\ resizeListeners' = resizeListeners
         /\ Running => canvas' = innerSize']_vars

\* a resize that left a particle beyond the new width or height
C7_Witness ==
    /\ Running /\ lastEvent = "resize"
    /\ \E i \in Ids : particles[i].x > W \/ particles[i].y > H

\* C8: no tick and no resize changes a particle's velocity, radius, opacity or
\* color.
C8_Immutable ==
    [][Running =>
         \A i \in Ids :
            /\ i \in DOMAIN particles'
            /\ particles'[i].vx = particles[i].vx
            /\ particles'[i].vy = particles[i].vy
            /\ particles'[i].radius = particles[i].radius
            /\ particles'[i].opacity = particles[i].opacity
            /\ particles'[i].color = particles[i].color]_vars

\* a particle moving right that was just put back to x = 0
C8_Witness ==
    /\ Running /\ lastEvent = "animate"
    /\ \E i \in Ids : particles[i].x = 0 /\ particles[i].vx > 0

\* C9: without the canvas element nothing is ever set up: no listener, no
\* particles, no tick requested or run.
C9_Inert ==
    ~canvasPresent =>
        /\ phase \in {"loading", "inert"}
        /\ resizeListeners = 0
        /\ canvas = NoCanvas
        /\ particles = <<>>
        /\ rafPending = 0
        /\ trace = <<>>
        /\ ticks = 0

C9_Witness == ~canvasPresent /\ phase = "inert" /\ lastEvent = "resize"

\* C10 as stated: in a tick the positions are updated, then the links are
\* drawn, then the particles, then the next tick is requested.
C10_LinksBeforeParticles ==
    Running =>
        /\ trace[1].op = "updateParticles"
        /\ trace[Len(trace)].op = "requestAnimationFrame"
        /\ \A k \in LineOps : \A m \in ArcOps : k < m

\* C10 amended: in a tick the positions are updated, then the canvas is
\* cleared and every particle is drawn, then the links are drawn, then the
\* next tick is requested.
C10_ParticlesBeforeLinks ==
    Running =>
        /\ trace[1].op = "updateParticles"
        /\ trace[2].op = "clearRect"
        /\ \A i \in Ids : trace[2 + i].op = "arc" /\ trace[2 + i].a = i
        /\ \A k \in (3 + Len(particles))..(Len(trace) - 1) : trace[k].op = "line"
        /\ trace[Len(trace)].op = "requestAnimationFrame"
        /\ Len(trace) >= 3 + Len(particles)

\* a tick that drew at least one link
C10_Witness == Running /\ lastEvent = "animate" /\ LineOps # {}

\* C11 as stated: whatever resizes came between the ticks, after
\* updateParticles every particle has 0 <= x <= width and 0 <= y <= height for
\* the canvas size of that call, and a coordinate that was beyond the new
\* dimension before the call is 0 after it.
C11_OutsideResetToZero ==
    [][ticks' = ticks + 1 =>
         \A i \in Ids :
            /\ 0 <= particles'[i].x /\ particles'[i].x <= W
            /\ 0 <= particles'[i].y /\ particles'[i].y <= H
            /\ particles[i].x > W => particles'[i].x = 0
            /\ particles[i].y > H => particles'[i].y = 0]_vars

\* C11 amended: whatever resizes came between the ticks, after updateParticles
\* every particle has 0 <= x <= width and 0 <= y <= height for the canvas size
\* of that call; a coordinate that is still beyond the dimension once the
\* velocity is added is 0 after the call, and one that the velocity brings
\* back to the dimension or below keeps the moved value.
C11_InsideAfterTick ==
    [][ticks' = ticks + 1 =>
         \A i \in Ids :
            /\ 0 <= particles'[i].x /\ particles'[i].x <= W
            /\ 0 <= particles'[i].y /\ particles'[i].y <= H
            /\ particles[i].x + particles[i].vx > W => particles'[i].x = 0
            /\ particles[i].y + particles[i].vy > H => particles'[i].y = 0
            /\ (particles[i].x > W /\ particles[i].x + particles[i].vx <= W)
                  => particles'[i].x = particles[i].x + particles[i].vx
            /\ (particles[i].y > H /\ particles[i].y + particles[i].vy <= H)
                  => particles'[i].y = particles[i].y + particles[i].vy]_vars

\* after a resize, a particle moving left is at x = 0: it was beyond the
\* shrunken width when the tick began
C11_Witness ==
    /\ Running /\ lastEvent = "animate" /\ resizes >= 1
    /\ \E i \in Ids : particles[i].x = 0 /\ particles[i].vx < 0

\* C12: once a summarize click has been handled and no request is in flight,
\* exactly one of the result card and the error card is shown, and the
\* spinner and the placeholder card are hidden.
C12_PanelsSettled ==
    (clicks >= 1 /\ requests = <<>>) =>
        /\ display["loadingSpinner"] = "none"
        /\ display["placeholderCard"] = "none"
        /\ \/ display["resultCard"] = "block" /\ display["errorCard"] = "none"
           \/ display["resultCard"] = "none" /\ display["errorCard"] = "block"

\* a request has just ended with the body parsed, after an earlier click was
\* answered with an error, and the result card is the one shown
C12_Witness ==
    /\ clicks >= 2 /\ requests = <<>> /\ lastEvent = "body"
    /\ display["resultCard"] = "block"

====
